---- MODULE Spec2Model ----
(***************************************************************************)
(* Model of gopatterns: the option pattern (option/option.go: Server,      *)
(* ServerOption, NewServer), the computer builder (ComputerBuilder), the   *)
(* helpers Must, MustV and PointerOf, and the predicate pattern:           *)
(*   - the fluent ProcessPredicateBuilder and the ProcessManager           *)
(*     (predicate/predicatebuilder.go),                                    *)
(*   - the generic predicate core: Filter and the And/Or/Not combinators   *)
(*     (the generic predicate file, src/unnamed/part_010).                 *)
(*                                                                         *)
(* A Go closure is modelled as a record holding what it captured: the      *)
(* field fn names its code, the other fields are the captured variables.   *)
(* The model follows one builder b and the predicate built from it, as     *)
(* each chain of the demo does; a closure that captured the pointer b      *)
(* reads the builder's fields as they are when the closure is called.      *)
(* Calling a closure yields [res, calls]: its boolean result and the       *)
(* sequence of atomic predicates it evaluated, in evaluation order.        *)
(* float64 CPUUsage values are held in tenths (25.5 is 255).               *)
(***************************************************************************)
EXTENDS Integers, Sequences, FiniteSets, TLC

VARIABLES
    builder,    \* the ProcessPredicateBuilder b points to: [predicates, combineOp]
    ret,        \* the pointer the last builder method returned ("nil": none called yet)
    pred,       \* the caller's variable pred := b.Build()
    lastUse,    \* history: the last UseAND/UseOR call on b ("none" if never) and
                \* how many predicates b held when it was made
    added,      \* history: the predicates the With* calls on b were to add, in call order
    items,      \* generic core: the caller's slice
    x,          \* generic core: the item the caller tests
    out,        \* generic core: what the last call returned
    spec,       \* specification variant: the caller's ProcessSpecification
    heap,       \* storage: the backing arrays, heap[1] the caller's
    input,      \* storage: the caller's slice header [arr, off, len, cap]
    opts,       \* option pattern: the options the caller passes to NewServer
    srv,        \* option pattern: what NewServer returned, and what it did
    computers,  \* computer builder: the Computer objects allocated
    cbuilder,   \* computer builder: the ComputerBuilder b, [computer]
    built,      \* computer builder: what the last b.Build() returned, and the
                \* Computer the caller holds from a Build that succeeded
    lastSet,    \* computer builder, history: the argument of the last Set* call
                \* for each field (the zero value if none)
    mustCall,   \* must: the last call of Must or MustV and its outcome
    cells,      \* pointer: the storage cells, cells[1] the caller's variable
    ptrs        \* pointer: the pointers PointerOf returned, in call order

bvars == <<builder, ret, pred, lastUse, added>>
nvars == <<opts, srv, computers, cbuilder, built, lastSet, mustCall, cells, ptrs>>
cvars == <<items, x, out, spec, heap, input, nvars>>
vars == <<builder, ret, pred, lastUse, added, items, x, out, spec, heap, input,
          opts, srv, computers, cbuilder, built, lastSet, mustCall, cells, ptrs>>

----------------------------------------------------------------------------
(* Bounds *)

\* With* calls accepted by the builder
MaxPreds == 3
\* length of the caller's slice
MaxLen == 3
\* the caller's ints are 0..MaxItem
MaxItem == 3
\* nodes of the caller's specification tree
MaxNodes == 6
\* options the caller passes to NewServer
MaxOpts == 3
\* calls of PointerOf
MaxPtrs == 2

----------------------------------------------------------------------------
(* Process and the atomic ProcessPredicate constructors *)

Process(id, title, status, priority, owner, cpu, memory) ==
    [ID |-> id, Title |-> title, Status |-> status, Priority |-> priority,
     Owner |-> owner, CPUUsage |-> cpu, Memory |-> memory]

ByTitle(title) == [fn |-> "ByTitle", title |-> title]
ByID(id) == [fn |-> "ByID", id |-> id]
ByStatus(status) == [fn |-> "ByStatus", status |-> status]
ByMinPriority(minPriority) == [fn |-> "ByMinPriority", minPriority |-> minPriority]
ByOwner(owner) == [fn |-> "ByOwner", owner |-> owner]
ByMaxCPU(maxCPU) == [fn |-> "ByMaxCPU", maxCPU |-> maxCPU]
ByMinMemory(minMemory) == [fn |-> "ByMinMemory", minMemory |-> minMemory]

\* the body of the closure an atomic constructor returns, applied to process p
ApplyAtomic(f, p) ==
    CASE f.fn = "ByTitle" -> p.Title = f.title
      [] f.fn = "ByID" -> p.ID = f.id
      [] f.fn = "ByStatus" -> p.Status = f.status
      [] f.fn = "ByMinPriority" -> p.Priority >= f.minPriority
      [] f.fn = "ByOwner" -> p.Owner = f.owner
      [] f.fn = "ByMaxCPU" -> p.CPUUsage <= f.maxCPU
      [] f.fn = "ByMinMemory" -> p.Memory >= f.minMemory

\* the sample data of CreateProcessManager
CreateProcessManager ==
    [processes |-> <<
        Process(1, "Go", "running", 5, "user1", 255, 1024),
        Process(2, "Python", "running", 3, "user2", 152, 2048),
        Process(3, "C++", "stopped", 7, "user1", 0, 512),
        Process(4, "Java", "running", 4, "user3", 458, 4096),
        Process(5, "Rust", "running", 6, "user1", 103, 1536),
        Process(6, "Node", "stopped", 2, "user2", 0, 768) >>]

Processes == {CreateProcessManager.processes[i] : i \in DOMAIN CreateProcessManager.processes}

\* arguments the callers of the demo pass to the With* methods
TitleArgs == {"Go"}
IDArgs == {4}
StatusArgs == {"running"}
PriorityArgs == {5}
OwnerArgs == {"user1"}
CPUArgs == {200}
MemoryArgs == {1024}

----------------------------------------------------------------------------
(* The generic predicate core: Predicate[T], Filter, And, Or, Not *)

IsEven == [fn |-> "IsEven"]
IsOdd == [fn |-> "IsOdd"]
IsPositive == [fn |-> "IsPositive"]
GreaterThan(threshold) == [fn |-> "GreaterThan", threshold |-> threshold]
LessThan(threshold) == [fn |-> "LessThan", threshold |-> threshold]
Between(min, max) == [fn |-> "Between", min |-> min, max |-> max]

IntFns == {"IsEven", "IsOdd", "IsPositive", "GreaterThan", "LessThan", "Between"}

\* the body of an integer predicate, applied to n
ApplyInt(f, n) ==
    CASE f.fn = "IsEven" -> n % 2 = 0
      [] f.fn = "IsOdd" -> n % 2 # 0
      [] f.fn = "IsPositive" -> n > 0
      [] f.fn = "GreaterThan" -> n > f.threshold
      [] f.fn = "LessThan" -> n < f.threshold
      [] f.fn = "Between" -> n >= f.min /\ n <= f.max

\* a predicate that is no combinator's closure, applied to an item of its type
ApplyLeaf(f, item) ==
    IF f.fn \in IntFns THEN ApplyInt(f, item) ELSE ApplyAtomic(f, item)

And(p1, p2) == [fn |-> "And", p1 |-> p1, p2 |-> p2]
Or(p1, p2) == [fn |-> "Or", p1 |-> p1, p2 |-> p2]
Not(p) == [fn |-> "Not", p |-> p]

\* f(item) for a Predicate[T] f: [res, calls]
RECURSIVE Call(_, _)

\* And evaluating both operands before combining them
AndCallEager(f, item) ==
    LET r1 == Call(f.p1, item)
        r2 == Call(f.p2, item)
    IN [res |-> r1.res /\ r2.res, calls |-> r1.calls \o r2.calls]

\* return p1(item) && p2(item)
AndCall(f, item) ==
    LET r1 == Call(f.p1, item)
        r2 == Call(f.p2, item)
    IN IF ~r1.res THEN [res |-> FALSE, calls |-> r1.calls]
       ELSE [res |-> r2.res, calls |-> r1.calls \o r2.calls]

\* Or evaluating both operands before combining them
OrCallEager(f, item) ==
    LET r1 == Call(f.p1, item)
        r2 == Call(f.p2, item)
    IN [res |-> r1.res \/ r2.res, calls |-> r1.calls \o r2.calls]

\* return p1(item) || p2(item)
OrCall(f, item) ==
    LET r1 == Call(f.p1, item)
        r2 == Call(f.p2, item)
    IN IF r1.res THEN [res |-> TRUE, calls |-> r1.calls]
       ELSE [res |-> r2.res, calls |-> r1.calls \o r2.calls]

\* Not returning what p returned
NotCallUnnegated(f, item) ==
    LET r == Call(f.p, item)
    IN [res |-> r.res, calls |-> r.calls]

\* return !p(item)
NotCall(f, item) ==
    LET r == Call(f.p, item)
    IN [res |-> ~r.res, calls |-> r.calls]

Call(f, item) ==
    CASE f.fn = "And" -> AndCall(f, item)
      [] f.fn = "Or" -> OrCall(f, item)
      [] f.fn = "Not" -> NotCall(f, item)
      [] OTHER -> [res |-> ApplyLeaf(f, item), calls |-> <<f>>]

\* for _, item := range items { if predicate(item) { result = append(result, item) } }
RECURSIVE FilterLoop(_, _, _, _)
FilterLoop(s, predicate, i, result) ==
    IF i > Len(s) THEN result
    ELSE IF Call(predicate, s[i]).res
         THEN FilterLoop(s, predicate, i + 1, Append(result, s[i]))
         ELSE FilterLoop(s, predicate, i + 1, result)

\* Filter putting each match in front of the result
FilterPrepends(s, predicate) ==
    LET r == FilterLoop(s, predicate, 1, <<>>)
    IN [i \in 1..Len(r) |-> r[Len(r) + 1 - i]]

Filter(s, predicate) == FilterLoop(s, predicate, 1, <<>>)

\* Any, All: [res, evals], evals the indices of the items the predicate
\* was called on, in order
RECURSIVE AnyLoop(_, _, _, _)
AnyLoop(s, predicate, i, evals) ==
    IF i > Len(s) THEN [res |-> FALSE, evals |-> evals]
    ELSE IF Call(predicate, s[i]).res
         THEN [res |-> TRUE, evals |-> Append(evals, i)]
         ELSE AnyLoop(s, predicate, i + 1, Append(evals, i))

\* Any going through the whole slice
AnyEager(s, predicate) ==
    [res |-> \E i \in 1..Len(s) : Call(predicate, s[i]).res,
     evals |-> [i \in 1..Len(s) |-> i]]

\* Any (the name Any is taken by the TLC module)
AnyOf(s, predicate) == AnyLoop(s, predicate, 1, <<>>)

RECURSIVE AllLoop(_, _, _, _)
AllLoop(s, predicate, i, evals) ==
    IF i > Len(s) THEN [res |-> TRUE, evals |-> evals]
    ELSE IF ~Call(predicate, s[i]).res
         THEN [res |-> FALSE, evals |-> Append(evals, i)]
         ELSE AllLoop(s, predicate, i + 1, Append(evals, i))

\* All going through the whole slice
AllEager(s, predicate) ==
    [res |-> \A i \in 1..Len(s) : Call(predicate, s[i]).res,
     evals |-> [i \in 1..Len(s) |-> i]]

All(s, predicate) == AllLoop(s, predicate, 1, <<>>)

\* None without the negation
NoneUnnegated(s, predicate) == AnyOf(s, predicate).res

\* return !Any(items, predicate)
None(s, predicate) == ~AnyOf(s, predicate).res

\* var zero T, for T = int
Zero == 0

RECURSIVE FindLoop(_, _, _)
FindLoop(s, predicate, i) ==
    IF i > Len(s) THEN [item |-> Zero, found |-> FALSE]
    ELSE IF Call(predicate, s[i]).res
         THEN [item |-> s[i], found |-> TRUE]
         ELSE FindLoop(s, predicate, i + 1)

\* Find keeping the last match
FindLast(s, predicate) ==
    LET r == Filter(s, predicate)
    IN IF r = <<>> THEN [item |-> Zero, found |-> FALSE]
       ELSE [item |-> r[Len(r)], found |-> TRUE]

Find(s, predicate) == FindLoop(s, predicate, 1)

RECURSIVE CountLoop(_, _, _, _)
CountLoop(s, predicate, i, count) ==
    IF i > Len(s) THEN count
    ELSE IF Call(predicate, s[i]).res
         THEN CountLoop(s, predicate, i + 1, count + 1)
         ELSE CountLoop(s, predicate, i + 1, count)

\* Count counting every item
CountEvery(s, predicate) == Len(s)

Count(s, predicate) == CountLoop(s, predicate, 1, 0)

----------------------------------------------------------------------------
(* Slices as Go stores them: a header over a backing array *)

\* the nil slice, var result []T
NilSlice == [arr |-> 0, off |-> 0, len |-> 0, cap |-> 0]

\* the elements sl[0], ..., sl[len-1]
Contents(h, sl) == [i \in 1..sl.len |-> h[sl.arr][sl.off + i]]

\* the capacity append grows a full slice to
NewCap(cap) == IF cap = 0 THEN 1 ELSE 2 * cap

\* append(sl, v): in place when there is capacity left, else into a new array
GoAppend(h, sl, v) ==
    IF sl.len < sl.cap
    THEN [heap |-> [h EXCEPT ![sl.arr][sl.off + sl.len + 1] = v],
          slice |-> [sl EXCEPT !.len = @ + 1]]
    ELSE LET n == NewCap(sl.cap)
             a == [i \in 1..n |->
                      IF i <= sl.len THEN h[sl.arr][sl.off + i]
                      ELSE IF i = sl.len + 1 THEN v ELSE Zero]
         IN [heap |-> Append(h, a),
             slice |-> [arr |-> Len(h) + 1, off |-> 0, len |-> sl.len + 1, cap |-> n]]

\* Filter's loop over the header it was passed, reading each item from the
\* array when its turn comes
RECURSIVE FilterStoreLoop(_, _, _, _, _)
FilterStoreLoop(h, in, predicate, i, result) ==
    IF i > in.len THEN [heap |-> h, slice |-> result]
    ELSE IF Call(predicate, h[in.arr][in.off + i]).res
         THEN LET r == GoAppend(h, result, h[in.arr][in.off + i])
              IN FilterStoreLoop(r.heap, in, predicate, i + 1, r.slice)
         ELSE FilterStoreLoop(h, in, predicate, i + 1, result)

\* Filter starting from items[:0]
FilterStoreInPlace(h, in, predicate) ==
    FilterStoreLoop(h, in, predicate, 1, [in EXCEPT !.len = 0])

\* Filter on stored slices: [heap, slice]
FilterStore(h, in, predicate) == FilterStoreLoop(h, in, predicate, 1, NilSlice)

\* the arrays still referred to: the caller's and the one of sl
Reachable(h, sl) ==
    IF sl.arr <= 1 THEN [heap |-> <<h[1]>>, slice |-> sl]
    ELSE [heap |-> <<h[1], h[sl.arr]>>, slice |-> [sl EXCEPT !.arr = 2]]

----------------------------------------------------------------------------
(* The closures Build returns, and calling a ProcessPredicate *)

\* the OR loop returning the first predicate's result
OrLoopFirstOnly(preds, p, i) ==
    IF i > Len(preds) THEN [res |-> FALSE, calls |-> <<>>]
    ELSE [res |-> ApplyAtomic(preds[i], p), calls |-> <<preds[i]>>]

\* for _, pred := range preds { if pred(p) { return true } }; return false
RECURSIVE OrLoop(_, _, _)
OrLoop(preds, p, i) ==
    IF i > Len(preds) THEN [res |-> FALSE, calls |-> <<>>]
    ELSE IF ApplyAtomic(preds[i], p) THEN [res |-> TRUE, calls |-> <<preds[i]>>]
    ELSE LET rest == OrLoop(preds, p, i + 1)
         IN [res |-> rest.res, calls |-> <<preds[i]>> \o rest.calls]

\* the AND loop calling every predicate before it answers
AndLoopCallsAll(preds, p, i) ==
    [res |-> \A j \in i..Len(preds) : ApplyAtomic(preds[j], p),
     calls |-> SubSeq(preds, i, Len(preds))]

\* for _, pred := range preds { if !pred(p) { return false } }; return true
RECURSIVE AndLoop(_, _, _)
AndLoop(preds, p, i) ==
    IF i > Len(preds) THEN [res |-> TRUE, calls |-> <<>>]
    ELSE IF ~ApplyAtomic(preds[i], p) THEN [res |-> FALSE, calls |-> <<preds[i]>>]
    ELSE LET rest == AndLoop(preds, p, i + 1)
         IN [res |-> rest.res, calls |-> <<preds[i]>> \o rest.calls]

\* f(p) for a ProcessPredicate f; bb is what b points to when f is called
CallPredicate(f, p, bb) ==
    CASE f.fn = "BuildTrue" -> [res |-> TRUE, calls |-> <<>>]
      [] f.fn = "BuildOr" -> OrLoop(bb.predicates, p, 1)
      [] f.fn = "BuildAnd" -> AndLoop(bb.predicates, p, 1)
      [] OTHER -> [res |-> ApplyAtomic(f, p), calls |-> <<f>>]

\* Build without the case for zero predicates
BuildValueNoEmptyCase(bb) ==
    IF Len(bb.predicates) = 1 THEN bb.predicates[1]
    ELSE IF bb.combineOp = "OR" THEN [fn |-> "BuildOr"]
    ELSE [fn |-> "BuildAnd"]

\* Build composing zero predicates under OR with the OR loop
BuildValueEmptyOrLoop(bb) ==
    IF Len(bb.predicates) = 0 /\ bb.combineOp # "OR" THEN [fn |-> "BuildTrue"]
    ELSE IF Len(bb.predicates) = 1 THEN bb.predicates[1]
    ELSE IF bb.combineOp = "OR" THEN [fn |-> "BuildOr"]
    ELSE [fn |-> "BuildAnd"]

\* Build treating one predicate like none
BuildValueSingleIsTrue(bb) ==
    IF Len(bb.predicates) <= 1 THEN [fn |-> "BuildTrue"]
    ELSE IF bb.combineOp = "OR" THEN [fn |-> "BuildOr"]
    ELSE [fn |-> "BuildAnd"]

\* the value b.Build() returns when b points to bb
BuildValue(bb) ==
    IF Len(bb.predicates) = 0 THEN [fn |-> "BuildTrue"]
    ELSE IF Len(bb.predicates) = 1 THEN bb.predicates[1]
    ELSE IF bb.combineOp = "OR" THEN [fn |-> "BuildOr"]
    ELSE [fn |-> "BuildAnd"]

----------------------------------------------------------------------------
(* ProcessPredicateBuilder *)

NoPred == [fn |-> "nil"]

\* &ProcessPredicateBuilder{predicates: []ProcessPredicate{}, combineOp: "AND"}
NewBuilderValue == [predicates |-> <<>>, combineOp |-> "AND"]

\* b := NewProcessPredicateBuilder(): the caller starts a new chain
NewProcessPredicateBuilder ==
    /\ builder' = NewBuilderValue
    /\ ret' = "nil"
    /\ pred' = [f |-> NoPred]
    /\ lastUse' = [op |-> "none", n |-> 0]
    /\ added' = <<>>
    /\ UNCHANGED cvars

\* WithTitle skipping a predicate the builder already holds
WithTitleDedup(title) ==
    /\ Len(builder.predicates) < MaxPreds
    /\ builder' = IF \E i \in DOMAIN builder.predicates : builder.predicates[i] = ByTitle(title)
                  THEN builder
                  ELSE [builder EXCEPT !.predicates = Append(@, ByTitle(title))]
    /\ ret' = "b"
    /\ added' = Append(added, ByTitle(title))
    /\ UNCHANGED <<pred, lastUse, cvars>>

\* b.predicates = append(b.predicates, ByX(arg)); return b
WithTitle(title) ==
    /\ Len(builder.predicates) < MaxPreds
    /\ builder' = [builder EXCEPT !.predicates = Append(@, ByTitle(title))]
    /\ ret' = "b"
    /\ added' = Append(added, ByTitle(title))
    /\ UNCHANGED <<pred, lastUse, cvars>>

WithID(id) ==
    /\ Len(builder.predicates) < MaxPreds
    /\ builder' = [builder EXCEPT !.predicates = Append(@, ByID(id))]
    /\ ret' = "b"
    /\ added' = Append(added, ByID(id))
    /\ UNCHANGED <<pred, lastUse, cvars>>

WithStatus(status) ==
    /\ Len(builder.predicates) < MaxPreds
    /\ builder' = [builder EXCEPT !.predicates = Append(@, ByStatus(status))]
    /\ ret' = "b"
    /\ added' = Append(added, ByStatus(status))
    /\ UNCHANGED <<pred, lastUse, cvars>>

WithMinPriority(priority) ==
    /\ Len(builder.predicates) < MaxPreds
    /\ builder' = [builder EXCEPT !.predicates = Append(@, ByMinPriority(priority))]
    /\ ret' = "b"
    /\ added' = Append(added, ByMinPriority(priority))
    /\ UNCHANGED <<pred, lastUse, cvars>>

WithOwner(owner) ==
    /\ Len(builder.predicates) < MaxPreds
    /\ builder' = [builder EXCEPT !.predicates = Append(@, ByOwner(owner))]
    /\ ret' = "b"
    /\ added' = Append(added, ByOwner(owner))
    /\ UNCHANGED <<pred, lastUse, cvars>>

WithMaxCPU(maxCPU) ==
    /\ Len(builder.predicates) < MaxPreds
    /\ builder' = [builder EXCEPT !.predicates = Append(@, ByMaxCPU(maxCPU))]
    /\ ret' = "b"
    /\ added' = Append(added, ByMaxCPU(maxCPU))
    /\ UNCHANGED <<pred, lastUse, cvars>>

WithMinMemory(minMemory) ==
    /\ Len(builder.predicates) < MaxPreds
    /\ builder' = [builder EXCEPT !.predicates = Append(@, ByMinMemory(minMemory))]
    /\ ret' = "b"
    /\ added' = Append(added, ByMinMemory(minMemory))
    /\ UNCHANGED <<pred, lastUse, cvars>>

UseAND ==
    /\ builder' = [builder EXCEPT !.combineOp = "AND"]
    /\ ret' = "b"
    /\ lastUse' = [op |-> "AND", n |-> Len(builder.predicates)]
    /\ UNCHANGED <<pred, added, cvars>>

\* UseOR taking effect only on a builder that holds no predicate yet
UseORBeforeAdding ==
    /\ builder' = IF Len(builder.predicates) = 0
                  THEN [builder EXCEPT !.combineOp = "OR"]
                  ELSE builder
    /\ ret' = "b"
    /\ lastUse' = [op |-> "OR", n |-> Len(builder.predicates)]
    /\ UNCHANGED <<pred, added, cvars>>

UseOR ==
    /\ builder' = [builder EXCEPT !.combineOp = "OR"]
    /\ ret' = "b"
    /\ lastUse' = [op |-> "OR", n |-> Len(builder.predicates)]
    /\ UNCHANGED <<pred, added, cvars>>

\* Build clearing the builder's list once the predicate is composed
BuildAndReset ==
    /\ pred' = [f |-> BuildValue(builder), at |-> builder, use |-> lastUse,
                again |-> /\ pred.f # NoPred
                          /\ Len(pred.at.predicates) < Len(builder.predicates)]
    /\ builder' = [builder EXCEPT !.predicates = <<>>]
    /\ UNCHANGED <<ret, lastUse, added, cvars>>

\* pred := b.Build(). Beside the closure f, pred keeps history read by no
\* code: at, what the builder held when Build ran; use, the last Use* call
\* then; again, whether an earlier Build of this builder saw fewer predicates.
Build ==
    /\ pred' = [f |-> BuildValue(builder), at |-> builder, use |-> lastUse,
                again |-> /\ pred.f # NoPred
                          /\ Len(pred.at.predicates) < Len(builder.predicates)]
    /\ UNCHANGED <<builder, ret, lastUse, added, cvars>>

\* result := pm.Find(predicate), the predicate called while b points to bb
RECURSIVE ProcessManagerFindLoop(_, _, _, _, _)
ProcessManagerFindLoop(pm, predicate, bb, i, result) ==
    IF i > Len(pm.processes) THEN result
    ELSE IF CallPredicate(predicate, pm.processes[i], bb).res
         THEN ProcessManagerFindLoop(pm, predicate, bb, i + 1, Append(result, pm.processes[i]))
         ELSE ProcessManagerFindLoop(pm, predicate, bb, i + 1, result)

ProcessManagerFind(pm, predicate, bb) == ProcessManagerFindLoop(pm, predicate, bb, 1, <<>>)

----------------------------------------------------------------------------
(* The specification variant: ProcessSpecification and its four kinds *)

NoSpec == [kind |-> "nil"]

\* &baseSpecification{predicate}; &andSpecification{left, right};
\* &orSpecification{left, right}; &notSpecification{spec}
baseSpecification(predicate) == [kind |-> "base", predicate |-> predicate]
andSpecification(left, right) == [kind |-> "and", left |-> left, right |-> right]
orSpecification(left, right) == [kind |-> "or", left |-> left, right |-> right]
notSpecification(s) == [kind |-> "not", spec |-> s]

\* the constructors' closures have the bodies of ByStatus("running"),
\* ByMinPriority(5) and ByOwner(owner)
RunningSpecification == baseSpecification(ByStatus("running"))
HighPrioritySpecification == baseSpecification(ByMinPriority(5))
OwnerSpecification(owner) == baseSpecification(ByOwner(owner))

\* s.And(other), s.Or(other): the same for the four kinds
SpecificationAnd(s, other) == andSpecification(s, other)
SpecificationOr(s, other) == orSpecification(s, other)

\* (*notSpecification).Not returning its receiver
NotSpecificationNotSelf(s) == s

\* (*notSpecification).Not: return s.spec
NotSpecificationNot(s) == s.spec

\* s.Not()
SpecificationNot(s) ==
    IF s.kind = "not" THEN NotSpecificationNot(s) ELSE notSpecification(s)

\* s.IsSatisfiedBy(p): [res, calls], calls the base predicates evaluated
RECURSIVE IsSatisfiedBy(_, _)

\* andSpecification evaluating its right operand first
AndSpecificationRightFirst(s, p) ==
    LET l == IsSatisfiedBy(s.left, p)
        r == IsSatisfiedBy(s.right, p)
    IN IF ~r.res THEN [res |-> FALSE, calls |-> r.calls]
       ELSE [res |-> l.res, calls |-> r.calls \o l.calls]

\* return s.left.IsSatisfiedBy(p) && s.right.IsSatisfiedBy(p)
AndSpecificationIsSatisfiedBy(s, p) ==
    LET l == IsSatisfiedBy(s.left, p)
        r == IsSatisfiedBy(s.right, p)
    IN IF ~l.res THEN [res |-> FALSE, calls |-> l.calls]
       ELSE [res |-> r.res, calls |-> l.calls \o r.calls]

\* return s.left.IsSatisfiedBy(p) || s.right.IsSatisfiedBy(p)
OrSpecificationIsSatisfiedBy(s, p) ==
    LET l == IsSatisfiedBy(s.left, p)
        r == IsSatisfiedBy(s.right, p)
    IN IF l.res THEN [res |-> TRUE, calls |-> l.calls]
       ELSE [res |-> r.res, calls |-> l.calls \o r.calls]

\* return !s.spec.IsSatisfiedBy(p)
NotSpecificationIsSatisfiedBy(s, p) ==
    LET r == IsSatisfiedBy(s.spec, p)
    IN [res |-> ~r.res, calls |-> r.calls]

\* return s.predicate(p)
BaseSpecificationIsSatisfiedBy(s, p) ==
    [res |-> ApplyAtomic(s.predicate, p), calls |-> <<s.predicate>>]

IsSatisfiedBy(s, p) ==
    CASE s.kind = "base" -> BaseSpecificationIsSatisfiedBy(s, p)
      [] s.kind = "and" -> AndSpecificationIsSatisfiedBy(s, p)
      [] s.kind = "or" -> OrSpecificationIsSatisfiedBy(s, p)
      [] s.kind = "not" -> NotSpecificationIsSatisfiedBy(s, p)

----------------------------------------------------------------------------
(* The option pattern: Server, ServerOption and NewServer.  An error is    *)
(* the sequence of its messages, outermost first (<<>> is nil); a          *)
(* time.Duration is held in seconds.                                       *)

NoErr == <<>>

\* errors.New(msg)
NewError(msg) == <<msg>>

\* fmt.Errorf(msg + ": %w", err)
Wrap(msg, err) == <<msg>> \o err

\* the server with the defaults left at their zero values
ZeroServer ==
    [host |-> "", port |-> 0, timeout |-> 0, maxConnections |-> 0,
     enableTLS |-> FALSE, certFile |-> "", keyFile |-> "", logger |-> "nil",
     middleware |-> <<>>, readTimeout |-> 0, writeTimeout |-> 0]

\* server := &Server{...}: the defaults; certFile and keyFile are not named
\* and have their zero value
DefaultServer ==
    [host |-> "localhost", port |-> 8080, timeout |-> 30, maxConnections |-> 100,
     enableTLS |-> FALSE, certFile |-> "", keyFile |-> "", logger |-> "default",
     middleware |-> <<>>, readTimeout |-> 15, writeTimeout |-> 15]

\* the closures the option functions return
WithHost(host) == [fn |-> "WithHost", host |-> host]
WithPort(port) == [fn |-> "WithPort", port |-> port]
WithTimeout(timeout) == [fn |-> "WithTimeout", timeout |-> timeout]
WithMaxConnections(max) == [fn |-> "WithMaxConnections", max |-> max]
WithTLS(certFile, keyFile) == [fn |-> "WithTLS", certFile |-> certFile, keyFile |-> keyFile]
WithLogger(logger) == [fn |-> "WithLogger", logger |-> logger]
WithMiddleware(middleware) == [fn |-> "WithMiddleware", middleware |-> middleware]
WithReadTimeout(timeout) == [fn |-> "WithReadTimeout", rtimeout |-> timeout]
WithWriteTimeout(timeout) == [fn |-> "WithWriteTimeout", wtimeout |-> timeout]
WithProduction == [fn |-> "WithProduction"]
WithDevelopment == [fn |-> "WithDevelopment"]

\* opts of WithProduction's closure
ProductionOpts ==
    <<WithHost("0.0.0.0"), WithMaxConnections(1000), WithTimeout(60),
      WithReadTimeout(30), WithWriteTimeout(30),
      WithMiddleware(<<"logging", "recovery", "compression">>)>>

\* opts of WithDevelopment's closure
DevelopmentOpts ==
    <<WithHost("localhost"), WithPort(3000), WithMaxConnections(10),
      WithTimeout(5), WithMiddleware(<<"logging", "debug">>)>>

\* s.validate()
validate(s) ==
    IF s.port < 1 \/ s.port > 65535
    THEN NewError("port must be between 1 and 65535")
    ELSE IF s.maxConnections < 1
    THEN NewError("maxConnections must be at least 1")
    ELSE IF s.enableTLS /\ (s.certFile = "" \/ s.keyFile = "")
    THEN NewError("TLS enabled but cert/key files not provided")
    ELSE NoErr

\* opt(s) for the closures of the option functions: [s, err], s the server
\* object after the call
RECURSIVE ApplyOption(_, _)
RECURSIVE ApplyEach(_, _, _)

\* for _, opt := range opts { if err := opt(s); err != nil { return err } }
\* as [s, err, n], n the number of options called
ApplyEach(os, s, i) ==
    IF i > Len(os) THEN [s |-> s, err |-> NoErr, n |-> Len(os)]
    ELSE LET r == ApplyOption(os[i], s)
         IN IF r.err # NoErr THEN [s |-> r.s, err |-> r.err, n |-> i]
            ELSE ApplyEach(os, r.s, i + 1)

ApplyOption(opt, s) ==
    LET Fail(msg) == [s |-> s, err |-> NewError(msg)]
        Ok(t) == [s |-> t, err |-> NoErr]
    IN CASE opt.fn = "WithHost" ->
              IF opt.host = "" THEN Fail("host cannot be empty")
              ELSE Ok([s EXCEPT !.host = opt.host])
         [] opt.fn = "WithPort" ->
              IF opt.port < 1 \/ opt.port > 65535
              THEN Fail("port must be between 1 and 65535")
              ELSE Ok([s EXCEPT !.port = opt.port])
         [] opt.fn = "WithTimeout" ->
              IF opt.timeout < 0 THEN Fail("timeout cannot be negative")
              ELSE Ok([s EXCEPT !.timeout = opt.timeout])
         [] opt.fn = "WithMaxConnections" ->
              IF opt.max < 1 THEN Fail("maxConnections must be at least 1")
              ELSE Ok([s EXCEPT !.maxConnections = opt.max])
         [] opt.fn = "WithTLS" ->
              IF opt.certFile = "" \/ opt.keyFile = ""
              THEN Fail("cert and key files must be provided")
              ELSE Ok([s EXCEPT !.enableTLS = TRUE, !.certFile = opt.certFile,
                                !.keyFile = opt.keyFile])
         [] opt.fn = "WithLogger" ->
              IF opt.logger = "nil" THEN Fail("logger cannot be nil")
              ELSE Ok([s EXCEPT !.logger = opt.logger])
         [] opt.fn = "WithMiddleware" ->
              Ok([s EXCEPT !.middleware = @ \o opt.middleware])
         [] opt.fn = "WithReadTimeout" ->
              IF opt.rtimeout < 0 THEN Fail("read timeout cannot be negative")
              ELSE Ok([s EXCEPT !.readTimeout = opt.rtimeout])
         [] opt.fn = "WithWriteTimeout" ->
              IF opt.wtimeout < 0 THEN Fail("write timeout cannot be negative")
              ELSE Ok([s EXCEPT !.writeTimeout = opt.wtimeout])
         [] opt.fn = "WithProduction" ->
              LET r == ApplyEach(ProductionOpts, s, 1) IN [s |-> r.s, err |-> r.err]
         [] opt.fn = "WithDevelopment" ->
              LET r == ApplyEach(DevelopmentOpts, s, 1) IN [s |-> r.s, err |-> r.err]

\* NewServer handing out the server together with the error
NewServerFromKeepsServer(server, os) ==
    LET r == ApplyEach(os, server, 1)
    IN IF r.err # NoErr
       THEN [called |-> TRUE, server |-> "server", obj |-> r.s,
             err |-> Wrap("failed to apply option", r.err),
             applied |-> r.n, validated |-> FALSE]
       ELSE [called |-> TRUE, server |-> "server", obj |-> r.s,
             err |-> IF validate(r.s) # NoErr
                     THEN Wrap("invalid server configuration", validate(r.s))
                     ELSE NoErr,
             applied |-> r.n, validated |-> TRUE]

\* the option loop going on after an error and keeping the first one
RECURSIVE ApplyAll(_, _, _, _)
ApplyAll(os, s, i, err) ==
    IF i > Len(os) THEN [s |-> s, err |-> err, n |-> Len(os)]
    ELSE LET r == ApplyOption(os[i], s)
         IN ApplyAll(os, r.s, i + 1, IF err = NoErr THEN r.err ELSE err)

\* NewServer reporting the error only after all options were applied
NewServerFromAppliesAll(server, os) ==
    LET r == ApplyAll(os, server, 1, NoErr)
    IN IF r.err # NoErr
       THEN [called |-> TRUE, server |-> "nil", obj |-> r.s,
             err |-> Wrap("failed to apply option", r.err),
             applied |-> r.n, validated |-> FALSE]
       ELSE [called |-> TRUE, server |-> "server", obj |-> r.s, err |-> NoErr,
             applied |-> r.n, validated |-> TRUE]

\* NewServer applying the options from the last to the first
NewServerFromReversed(server, os) ==
    LET rev == [i \in 1..Len(os) |-> os[Len(os) + 1 - i]]
        r == ApplyEach(rev, server, 1)
    IN IF r.err # NoErr
       THEN [called |-> TRUE, server |-> "nil", obj |-> r.s,
             err |-> Wrap("failed to apply option", r.err),
             applied |-> r.n, validated |-> FALSE]
       ELSE [called |-> TRUE, server |-> "server", obj |-> r.s, err |-> NoErr,
             applied |-> r.n, validated |-> TRUE]

\* NewServer(opts...) from the server object it allocates: the pointer
\* returned ("nil" or "server"), the object, the error, the number of
\* options called and whether validate was called
NewServerFrom(server, os) ==
    LET r == ApplyEach(os, server, 1)
    IN IF r.err # NoErr
       THEN [called |-> TRUE, server |-> "nil", obj |-> r.s,
             err |-> Wrap("failed to apply option", r.err),
             applied |-> r.n, validated |-> FALSE]
       ELSE IF validate(r.s) # NoErr
       THEN [called |-> TRUE, server |-> "nil", obj |-> r.s,
             err |-> Wrap("invalid server configuration", validate(r.s)),
             applied |-> r.n, validated |-> TRUE]
       ELSE [called |-> TRUE, server |-> "server", obj |-> r.s, err |-> NoErr,
             applied |-> r.n, validated |-> TRUE]

NewServer(os) == NewServerFrom(DefaultServer, os)

----------------------------------------------------------------------------
(* The computer builder: Computer, ComputerBuilder and Build.  A *Computer *)
(* is an index into computers, 0 is nil.                                   *)

\* &Computer{}
ZeroComputer == [CPU |-> "", RAM |-> 0, Storage |-> 0, GPU |-> "", OS |-> ""]

\* Build's checks without the upper limits
BuildErrorNoLimits(c) ==
    IF c.CPU = "" THEN NewError("CPU is required")
    ELSE IF c.RAM <= 0 THEN NewError("RAM must be greater than 0")
    ELSE IF c.Storage <= 0 THEN NewError("storage must be greater than 0")
    ELSE IF c.OS = "" THEN NewError("OS is required")
    ELSE NoErr

\* the error Build returns for the builder's computer c (NoErr: none)
BuildError(c) ==
    IF c.CPU = "" THEN NewError("CPU is required")
    ELSE IF c.RAM <= 0 THEN NewError("RAM must be greater than 0")
    ELSE IF c.Storage <= 0 THEN NewError("storage must be greater than 0")
    ELSE IF c.OS = "" THEN NewError("OS is required")
    ELSE IF c.RAM > 1024 THEN NewError("RAM exceeds maximum allowed (1024GB)")
    ELSE IF c.Storage > 100000 THEN NewError("storage exceeds maximum allowed (100TB)")
    ELSE NoErr

\* b.SetCPU(cpu): b.computer.CPU = cpu
SetCPU(cpu) ==
    /\ computers' = [computers EXCEPT ![cbuilder.computer].CPU = cpu]
    /\ lastSet' = [lastSet EXCEPT !.CPU = cpu]
    /\ UNCHANGED <<cbuilder, built, opts, srv, mustCall, cells, ptrs,
                   bvars, items, x, out, spec, heap, input>>

\* b.SetRAM(ram)
SetRAM(ram) ==
    /\ computers' = [computers EXCEPT ![cbuilder.computer].RAM = ram]
    /\ lastSet' = [lastSet EXCEPT !.RAM = ram]
    /\ UNCHANGED <<cbuilder, built, opts, srv, mustCall, cells, ptrs,
                   bvars, items, x, out, spec, heap, input>>

\* b.SetStorage(storage)
SetStorage(storage) ==
    /\ computers' = [computers EXCEPT ![cbuilder.computer].Storage = storage]
    /\ lastSet' = [lastSet EXCEPT !.Storage = storage]
    /\ UNCHANGED <<cbuilder, built, opts, srv, mustCall, cells, ptrs,
                   bvars, items, x, out, spec, heap, input>>

\* b.SetGPU(gpu)
SetGPU(gpu) ==
    /\ computers' = [computers EXCEPT ![cbuilder.computer].GPU = gpu]
    /\ lastSet' = [lastSet EXCEPT !.GPU = gpu]
    /\ UNCHANGED <<cbuilder, built, opts, srv, mustCall, cells, ptrs,
                   bvars, items, x, out, spec, heap, input>>

\* b.SetOS(os)
SetOS(os) ==
    /\ computers' = [computers EXCEPT ![cbuilder.computer].OS = os]
    /\ lastSet' = [lastSet EXCEPT !.OS = os]
    /\ UNCHANGED <<cbuilder, built, opts, srv, mustCall, cells, ptrs,
                   bvars, items, x, out, spec, heap, input>>

\* c, err := b.Build(): (nil, err) or (b.computer, nil).  built keeps the
\* return, the Set* history at the call and the fields of *c at the return;
\* held is the Computer the caller keeps from the last Build that succeeded
\* and heldSnap its fields when it was returned.
ComputerBuilderBuild ==
    /\ LET err == BuildError(computers[cbuilder.computer])
           c == IF err # NoErr THEN 0 ELSE cbuilder.computer
       IN built' = [called |-> TRUE, c |-> c, err |-> err, at |-> lastSet,
                    snap |-> IF c = 0 THEN ZeroComputer ELSE computers[c],
                    held |-> IF c # 0 THEN c
                             ELSE IF built.called THEN built.held ELSE 0,
                    heldSnap |-> IF c # 0 THEN computers[c]
                                 ELSE IF built.called THEN built.heldSnap
                                 ELSE ZeroComputer]
    /\ UNCHANGED <<computers, cbuilder, lastSet, opts, srv, mustCall, cells, ptrs,
                   bvars, items, x, out, spec, heap, input>>

----------------------------------------------------------------------------
(* Must and MustV.  A call either returns or panics: [panicked, panic,     *)
(* ret], panic the value passed to panic, ret the value returned (MustV).  *)

\* Must(err)
Must(err) ==
    IF err # NoErr THEN [panicked |-> TRUE, panic |-> err, ret |-> Zero]
    ELSE [panicked |-> FALSE, panic |-> NoErr, ret |-> Zero]

\* MustV panicking with an error that wraps err
MustVWraps(v, err) ==
    IF err # NoErr THEN [panicked |-> TRUE, panic |-> Wrap("must", err), ret |-> Zero]
    ELSE [panicked |-> FALSE, panic |-> NoErr, ret |-> v]

\* MustV(v, err)
MustV(v, err) ==
    IF err # NoErr THEN [panicked |-> TRUE, panic |-> err, ret |-> Zero]
    ELSE [panicked |-> FALSE, panic |-> NoErr, ret |-> v]

----------------------------------------------------------------------------
(* PointerOf.  A pointer is an index into cells, 0 is nil; cells[1] is the *)
(* caller's variable.                                                      *)

\* PointerOf keeping the value in one cell shared by all calls
PointerOfShared(mem, v) ==
    IF Len(mem) < 2 THEN [cells |-> Append(mem, v), p |-> 2]
    ELSE [cells |-> [mem EXCEPT ![2] = v], p |-> 2]

\* PointerOf(v): the parameter v is a new cell holding the argument, &v its
\* address
PointerOf(mem, v) == [cells |-> Append(mem, v), p |-> Len(mem) + 1]

----------------------------------------------------------------------------
(* Specification of the builder *)

\* nothing has been called yet in the option pattern
InitOptionIdle ==
    /\ opts = <<>>
    /\ srv = [called |-> FALSE]

\* no ComputerBuilder has been made yet
InitComputerIdle ==
    /\ computers = <<>>
    /\ cbuilder = [computer |-> 0]
    /\ built = [called |-> FALSE]
    /\ lastSet = <<>>

\* Must and MustV have not been called yet
InitMustIdle == mustCall = [op |-> "none"]

\* PointerOf has not been called yet
InitPointerIdle ==
    /\ cells = <<>>
    /\ ptrs = <<>>

InitRest ==
    /\ InitOptionIdle
    /\ InitComputerIdle
    /\ InitMustIdle
    /\ InitPointerIdle

InitCore ==
    /\ items = <<>>
    /\ x = 0
    /\ out = [op |-> "none"]
    /\ spec = NoSpec
    /\ heap = <<>>
    /\ input = NilSlice

InitBuilder ==
    /\ builder = NewBuilderValue
    /\ ret = "nil"
    /\ pred = [f |-> NoPred]
    /\ lastUse = [op |-> "none", n |-> 0]
    /\ added = <<>>

Init ==
    /\ InitBuilder
    /\ InitRest
    /\ InitCore

Next ==
    \/ NewProcessPredicateBuilder
    \/ \E title \in TitleArgs : WithTitle(title)
    \/ \E id \in IDArgs : WithID(id)
    \/ \E status \in StatusArgs : WithStatus(status)
    \/ \E priority \in PriorityArgs : WithMinPriority(priority)
    \/ \E owner \in OwnerArgs : WithOwner(owner)
    \/ \E maxCPU \in CPUArgs : WithMaxCPU(maxCPU)
    \/ \E minMemory \in MemoryArgs : WithMinMemory(minMemory)
    \/ UseAND
    \/ UseOR
    \/ Build

Spec == Init /\ [][Next]_vars

----------------------------------------------------------------------------
(* Specification of the slice operations: the caller holds a slice of ints *)
(* and the process manager, and filters them                               *)

RECURSIVE SeqsUpTo(_, _)
SeqsUpTo(S, n) ==
    IF n = 0 THEN {<<>>}
    ELSE LET shorter == SeqsUpTo(S, n - 1)
         IN shorter \cup {Append(s, e) : s \in shorter, e \in S}

Items == 0..MaxItem

\* thresholds and ranges the callers pass
ThresholdArgs == {1, 2}
IntPredicates ==
    {IsEven, IsOdd, IsPositive, Between(1, 2)}
        \cup {GreaterThan(t) : t \in ThresholdArgs}
        \cup {LessThan(t) : t \in ThresholdArgs}

\* predicates the callers pass where a Predicate[int] is expected
GenericPredicates ==
    IntPredicates \cup {Not(IsEven), And(IsEven, GreaterThan(1)), Or(IsOdd, LessThan(2))}

\* atomic predicates the callers pass where a ProcessPredicate is expected
ProcessPredicates ==
    {ByTitle(t) : t \in TitleArgs \cup {"Python", "Swift"}} \cup {ByID(i) : i \in IDArgs}
        \cup {ByStatus(st) : st \in StatusArgs \cup {"stopped"}}
        \cup {ByMinPriority(pr) : pr \in PriorityArgs}
        \cup {ByOwner(o) : o \in OwnerArgs} \cup {ByMaxCPU(c) : c \in CPUArgs}
        \cup {ByMinMemory(m) : m \in MemoryArgs}

InitSlices ==
    /\ InitBuilder
    /\ InitRest
    /\ items \in SeqsUpTo(Items, MaxLen)
    /\ x = 0
    /\ out = [op |-> "none"]
    /\ spec = NoSpec
    /\ heap = <<>>
    /\ input = NilSlice

\* out := Filter(items, predicate)
DoFilter(predicate) ==
    /\ out' = [op |-> "Filter", p |-> predicate, res |-> Filter(items, predicate)]
    /\ UNCHANGED <<items, x, spec, heap, input, bvars, nvars>>

\* out := pm.Find(predicate) on pm := CreateProcessManager()
DoProcessManagerFind(predicate) ==
    /\ out' = [op |-> "ProcessManager.Find", p |-> predicate,
               res |-> ProcessManagerFind(CreateProcessManager, predicate, builder)]
    /\ UNCHANGED <<items, x, spec, heap, input, bvars, nvars>>

\* out := Count(items, predicate)
DoCount(predicate) ==
    /\ out' = [op |-> "Count", p |-> predicate, res |-> Count(items, predicate)]
    /\ UNCHANGED <<items, x, spec, heap, input, bvars, nvars>>

\* out := Find(items, predicate)
DoFind(predicate) ==
    /\ out' = [op |-> "Find", p |-> predicate, res |-> Find(items, predicate)]
    /\ UNCHANGED <<items, x, spec, heap, input, bvars, nvars>>

\* out := Any(items, predicate)
DoAny(predicate) ==
    /\ out' = [op |-> "Any", p |-> predicate, res |-> AnyOf(items, predicate)]
    /\ UNCHANGED <<items, x, spec, heap, input, bvars, nvars>>

\* out := All(items, predicate)
DoAll(predicate) ==
    /\ out' = [op |-> "All", p |-> predicate, res |-> All(items, predicate)]
    /\ UNCHANGED <<items, x, spec, heap, input, bvars, nvars>>

\* out := None(items, predicate)
DoNone(predicate) ==
    /\ out' = [op |-> "None", p |-> predicate, res |-> None(items, predicate)]
    /\ UNCHANGED <<items, x, spec, heap, input, bvars, nvars>>

NextSlices ==
    \/ \E predicate \in GenericPredicates : DoFilter(predicate)
    \/ \E predicate \in ProcessPredicates : DoProcessManagerFind(predicate)
    \/ \E predicate \in GenericPredicates : DoCount(predicate)
    \/ \E predicate \in GenericPredicates : DoFind(predicate)
    \/ \E predicate \in GenericPredicates : DoAny(predicate)
    \/ \E predicate \in GenericPredicates : DoAll(predicate)
    \/ \E predicate \in GenericPredicates : DoNone(predicate)

SpecSlices == InitSlices /\ [][NextSlices]_vars

----------------------------------------------------------------------------
(* Specification of the combinators: the caller combines two predicates    *)
(* and calls the result on an int                                          *)

InitCombinators ==
    /\ InitBuilder
    /\ InitRest
    /\ items = <<>>
    /\ x \in Items
    /\ out = [op |-> "none"]
    /\ spec = NoSpec
    /\ heap = <<>>
    /\ input = NilSlice

\* out := And(p, q)(x)
DoAnd(p, q) ==
    /\ out' = [op |-> "And", p |-> p, q |-> q, r |-> Call(And(p, q), x)]
    /\ UNCHANGED <<items, x, spec, heap, input, bvars, nvars>>

\* out := Or(p, q)(x)
DoOr(p, q) ==
    /\ out' = [op |-> "Or", p |-> p, q |-> q, r |-> Call(Or(p, q), x)]
    /\ UNCHANGED <<items, x, spec, heap, input, bvars, nvars>>

\* out := Not(p)(x)
DoNot(p) ==
    /\ out' = [op |-> "Not", p |-> p, r |-> Call(Not(p), x)]
    /\ UNCHANGED <<items, x, spec, heap, input, bvars, nvars>>

NextCombinators ==
    \/ \E p, q \in GenericPredicates : DoAnd(p, q)
    \/ \E p, q \in GenericPredicates : DoOr(p, q)
    \/ \E p \in GenericPredicates : DoNot(p)

SpecCombinators == InitCombinators /\ [][NextCombinators]_vars

----------------------------------------------------------------------------
(* Specification of the specification variant: the caller composes a       *)
(* ProcessSpecification step by step, spec = spec.And(other) and so on     *)

RECURSIVE Nodes(_)
Nodes(s) ==
    CASE s.kind = "base" -> 1
      [] s.kind = "not" -> 1 + Nodes(s.spec)
      [] OTHER -> 1 + Nodes(s.left) + Nodes(s.right)

BaseSpecifications ==
    {RunningSpecification, HighPrioritySpecification, OwnerSpecification("user1")}

\* the specifications the caller passes as other
OtherSpecifications ==
    BaseSpecifications \cup
        {notSpecification(RunningSpecification),
         andSpecification(RunningSpecification, HighPrioritySpecification),
         orSpecification(HighPrioritySpecification, OwnerSpecification("user1"))}

InitSpecifications ==
    /\ InitBuilder
    /\ InitRest
    /\ items = <<>>
    /\ x = 0
    /\ out = [op |-> "none"]
    /\ spec \in BaseSpecifications
    /\ heap = <<>>
    /\ input = NilSlice

\* spec = spec.And(other); out keeps the operands
DoSpecificationAnd(other) ==
    /\ 1 + Nodes(spec) + Nodes(other) <= MaxNodes
    /\ spec' = SpecificationAnd(spec, other)
    /\ out' = [op |-> "Spec.And", a |-> spec, b |-> other]
    /\ UNCHANGED <<items, x, heap, input, bvars, nvars>>

\* spec = spec.Or(other)
DoSpecificationOr(other) ==
    /\ 1 + Nodes(spec) + Nodes(other) <= MaxNodes
    /\ spec' = SpecificationOr(spec, other)
    /\ out' = [op |-> "Spec.Or", a |-> spec, b |-> other]
    /\ UNCHANGED <<items, x, heap, input, bvars, nvars>>

\* spec = spec.Not(); out keeps the operand and, when the call before was
\* Not too, the operand of that call
DoSpecificationNot ==
    /\ Nodes(SpecificationNot(spec)) <= MaxNodes
    /\ spec' = SpecificationNot(spec)
    /\ out' = [op |-> "Spec.Not", a |-> spec,
               orig |-> IF out.op = "Spec.Not" THEN out.a ELSE NoSpec]
    /\ UNCHANGED <<items, x, heap, input, bvars, nvars>>

NextSpecifications ==
    \/ \E other \in OtherSpecifications : DoSpecificationAnd(other)
    \/ \E other \in OtherSpecifications : DoSpecificationOr(other)
    \/ DoSpecificationNot

SpecSpecifications == InitSpecifications /\ [][NextSpecifications]_vars

----------------------------------------------------------------------------
(* Specification of the storage: the caller's slice is a window of an      *)
(* array, the functions get its header, the caller writes to what Filter   *)
(* returned                                                                *)

\* elements of the caller's array before and after its slice
Offsets == {0, 1}
Spares == {0, 1}

\* the predicates the caller passes
StoragePredicates == {IsEven, GreaterThan(1), Or(IsOdd, LessThan(2))}

\* the value the caller writes
Written == MaxItem + 1

InitStorage ==
    /\ InitBuilder
    /\ InitRest
    /\ items \in SeqsUpTo(Items, MaxLen)
    /\ x = 0
    /\ out = [op |-> "none"]
    /\ spec = NoSpec
    /\ \E off \in Offsets, spare \in Spares :
        /\ heap = <<[i \in 1..(off + Len(items) + spare) |->
                        IF off < i /\ i <= off + Len(items)
                        THEN items[i - off] ELSE Zero]>>
        /\ input = [arr |-> 1, off |-> off, len |-> Len(items),
                    cap |-> Len(items) + spare]

\* out := Filter(input, predicate)
FilterStorage(predicate) ==
    /\ LET r == FilterStore(<<heap[1]>>, input, predicate)
           c == Reachable(r.heap, r.slice)
       IN /\ heap' = c.heap
          /\ out' = [op |-> "Filter", p |-> predicate, res |-> c.slice]
    /\ UNCHANGED <<items, x, spec, input, bvars, nvars>>

\* out := Any(input, predicate), and so on: the functions that only read
ReadStorage(op, predicate) ==
    /\ LET s == Contents(heap, input)
       IN out' = [op |-> op, p |-> predicate,
                  res |-> CASE op = "Any" -> AnyOf(s, predicate)
                            [] op = "All" -> All(s, predicate)
                            [] op = "None" -> None(s, predicate)
                            [] op = "Find" -> Find(s, predicate)
                            [] op = "Count" -> Count(s, predicate)]
    /\ heap' = <<heap[1]>>
    /\ UNCHANGED <<items, x, spec, input, bvars, nvars>>

\* the caller: out[i-1] = v on the slice Filter returned
WriteResult(i, v) ==
    /\ out.op = "Filter"
    /\ i \in 1..out.res.len
    /\ heap' = [heap EXCEPT ![out.res.arr][out.res.off + i] = v]
    /\ UNCHANGED <<items, x, out, spec, input, bvars, nvars>>

\* the caller: out = append(out, v) on the slice Filter returned
AppendResult(v) ==
    /\ out.op = "Filter"
    /\ out.res.len < MaxLen
    /\ LET r == GoAppend(heap, out.res, v)
           c == Reachable(r.heap, r.slice)
       IN /\ heap' = c.heap
          /\ out' = [out EXCEPT !.res = c.slice]
    /\ UNCHANGED <<items, x, spec, input, bvars, nvars>>

NextStorage ==
    \/ \E predicate \in StoragePredicates : FilterStorage(predicate)
    \/ \E op \in {"Any", "All", "None", "Find", "Count"},
          predicate \in StoragePredicates : ReadStorage(op, predicate)
    \/ \E i \in 1..MaxLen : WriteResult(i, Written)
    \/ AppendResult(Written)

SpecStorage == InitStorage /\ [][NextStorage]_vars

----------------------------------------------------------------------------
(* Specification of the option pattern: the caller holds a list of options *)
(* and calls NewServer with it                                             *)

\* the options a caller passes: those of the demos and the README, and the
\* ones each option function rejects
Options ==
    {WithHost(""), WithHost("localhost"), WithHost("api.example.com"),
     WithPort(0), WithPort(443), WithPort(99999),
     WithTimeout(0 - 1), WithTimeout(1),
     WithMaxConnections(0), WithMaxConnections(500),
     WithTLS("", ""), WithTLS("cert.pem", ""), WithTLS("cert.pem", "key.pem"),
     WithLogger("nil"), WithLogger("custom"),
     WithMiddleware(<<"cors", "auth">>), WithMiddleware(<<"logging">>),
     WithReadTimeout(0 - 1), WithReadTimeout(5), WithWriteTimeout(7),
     WithProduction, WithDevelopment}

InitOption ==
    /\ InitBuilder
    /\ InitCore
    /\ InitComputerIdle
    /\ InitMustIdle
    /\ InitPointerIdle
    /\ opts \in SeqsUpTo(Options, MaxOpts)
    /\ srv = [called |-> FALSE]

\* srv := NewServer(opts...)
DoNewServer ==
    /\ ~srv.called
    /\ srv' = NewServer(opts)
    /\ UNCHANGED <<opts, computers, cbuilder, built, lastSet, mustCall, cells, ptrs,
                   bvars, items, x, out, spec, heap, input>>

NextOption == DoNewServer

SpecOption == InitOption /\ [][NextOption]_vars

----------------------------------------------------------------------------
(* Specification of the computer builder: one builder b, its Set* methods  *)
(* and Build, called in any order                                          *)

CPUs == {"", "Intel i9"}
RAMs == {0 - 1, 0, 16, 1024, 1025}
Storages == {0, 512, 100000, 100001}
GPUs == {"", "RTX 4090"}
OSs == {"", "Linux"}

\* b := NewComputerBuilder()
InitComputer ==
    /\ InitBuilder
    /\ InitCore
    /\ InitOptionIdle
    /\ InitMustIdle
    /\ InitPointerIdle
    /\ computers = <<ZeroComputer>>
    /\ cbuilder = [computer |-> 1]
    /\ built = [called |-> FALSE]
    /\ lastSet = ZeroComputer

NextComputer ==
    \/ \E cpu \in CPUs : SetCPU(cpu)
    \/ \E ram \in RAMs : SetRAM(ram)
    \/ \E storage \in Storages : SetStorage(storage)
    \/ \E gpu \in GPUs : SetGPU(gpu)
    \/ \E os \in OSs : SetOS(os)
    \/ ComputerBuilderBuild

SpecComputer == InitComputer /\ [][NextComputer]_vars

----------------------------------------------------------------------------
(* Specification of Must and MustV: the caller passes what a call of the   *)
(* repository returned, a value and an error                               *)

\* the errors of the repository's functions, and nil
MustErrs ==
    {NoErr, NewError("error"), NewError("critical failure")}
        \cup {BuildError([ZeroComputer EXCEPT !.CPU = cpu, !.RAM = ram, !.Storage = 512]) :
                cpu \in CPUs, ram \in RAMs}
        \cup {NewServer(<<o>>).err : o \in Options}

MustValues == (0 - 2 * MaxItem)..(2 * MaxItem)

InitMust ==
    /\ InitBuilder
    /\ InitCore
    /\ InitOptionIdle
    /\ InitComputerIdle
    /\ InitPointerIdle
    /\ mustCall = [op |-> "none"]

\* Must(err)
DoMust(err) ==
    /\ mustCall' = [op |-> "Must", v |-> Zero, err |-> err, r |-> Must(err)]
    /\ UNCHANGED <<opts, srv, computers, cbuilder, built, lastSet, cells, ptrs,
                   bvars, items, x, out, spec, heap, input>>

\* MustV(v, err)
DoMustV(v, err) ==
    /\ mustCall' = [op |-> "MustV", v |-> v, err |-> err, r |-> MustV(v, err)]
    /\ UNCHANGED <<opts, srv, computers, cbuilder, built, lastSet, cells, ptrs,
                   bvars, items, x, out, spec, heap, input>>

NextMust ==
    \/ \E err \in MustErrs : DoMust(err)
    \/ \E v \in MustValues, err \in MustErrs : DoMustV(v, err)

SpecMust == InitMust /\ [][NextMust]_vars

----------------------------------------------------------------------------
(* Specification of PointerOf: the caller has a variable, calls PointerOf  *)
(* on it or on a literal, and writes through the pointers it got           *)

InitPointer ==
    /\ InitBuilder
    /\ items = <<>>
    /\ x \in Items
    /\ out = [op |-> "none"]
    /\ spec = NoSpec
    /\ heap = <<>>
    /\ input = NilSlice
    /\ InitOptionIdle
    /\ InitComputerIdle
    /\ InitMustIdle
    /\ cells = <<x>>
    /\ ptrs = <<>>

\* p := PointerOf(v); ptrs keeps p, the argument and *p at the return
CallPointerOf(v) ==
    /\ Len(ptrs) < MaxPtrs
    /\ LET r == PointerOf(cells, v)
       IN /\ cells' = r.cells
          /\ ptrs' = Append(ptrs, [p |-> r.p, v |-> v,
                                   deref |-> IF r.p = 0 THEN Zero ELSE r.cells[r.p]])
    /\ UNCHANGED <<opts, srv, computers, cbuilder, built, lastSet, mustCall,
                   bvars, items, x, out, spec, heap, input>>

\* p := PointerOf(x) on the caller's variable
DoPointerOfVariable == CallPointerOf(cells[1])

\* p := PointerOf(v) on a literal
DoPointerOfLiteral(v) == CallPointerOf(v)

\* *p = w through the i-th pointer
WriteThrough(i, w) ==
    /\ i \in 1..Len(ptrs)
    /\ ptrs[i].p # 0
    /\ cells' = [cells EXCEPT ![ptrs[i].p] = w]
    /\ UNCHANGED <<ptrs, opts, srv, computers, cbuilder, built, lastSet, mustCall,
                   bvars, items, x, out, spec, heap, input>>

NextPointer ==
    \/ DoPointerOfVariable
    \/ \E v \in Items : DoPointerOfLiteral(v)
    \/ \E i \in 1..MaxPtrs, w \in Items : WriteThrough(i, w)

SpecPointer == InitPointer /\ [][NextPointer]_vars

----------------------------------------------------------------------------
(* Properties of the builder (specification Spec) *)

Built == pred.f # NoPred

\* pred(p) now, and pred(p) had the builder stayed as Build left it
Res(p) == CallPredicate(pred.f, p, builder).res
ResAtBuild(p) == CallPredicate(pred.f, p, pred.at).res

AllHold(preds, p) == \A i \in DOMAIN preds : ApplyAtomic(preds[i], p)
SomeHolds(preds, p) == \E i \in DOMAIN preds : ApplyAtomic(preds[i], p)

\* what composing preds under mode op means on p
Composed(op, preds, p) ==
    IF Len(preds) = 0 THEN TRUE
    ELSE IF op = "OR" THEN SomeHolds(preds, p) ELSE AllHold(preds, p)

\* C2: a predicate returned by Build gives on every process the result it
\* gave when Build returned, whatever With* and Use* calls the builder takes
\* afterwards.
C2_StatelessAfterBuild ==
    Built => \A p \in Processes : Res(p) = ResAtBuild(p)

\* C3: Build on a builder holding zero predicates returns a predicate that is
\* true for every process, in AND mode and in OR mode, and stays so whatever
\* the builder takes afterwards.
C3_EmptyBuildIsTrue ==
    (Built /\ Len(pred.at.predicates) = 0) => \A p \in Processes : Res(p)

C3_Witness ==
    /\ Built
    /\ Len(pred.at.predicates) = 0
    /\ pred.at.combineOp = "OR"
    /\ Len(builder.predicates) >= 2

\* C4 as stated: a builder switched to OR mode with UseOR and holding zero
\* predicates builds a predicate that is false on every process.
C4_EmptyOrIsFalse ==
    (Built /\ Len(pred.at.predicates) = 0 /\ pred.use.op = "OR")
        => \A p \in Processes : ~Res(p)

\* C4 amended: the OR closure never runs over an empty predicate list (Build
\* returns it only for two or more predicates, and it is then true on p iff
\* some predicate of the builder is), and a builder switched to OR mode with
\* UseOR and holding zero predicates builds a predicate that is true on every
\* process.
C4_EmptyOrIsTrue ==
    /\ (Built /\ Len(pred.at.predicates) = 0 /\ pred.use.op = "OR")
            => \A p \in Processes : Res(p)
    /\ (Built /\ pred.f.fn = "BuildOr")
            => /\ Len(builder.predicates) >= 2
               /\ \A p \in Processes : Res(p) = SomeHolds(builder.predicates, p)

C4_Witness ==
    /\ Built
    /\ Len(pred.at.predicates) = 0
    /\ pred.use.op = "OR"
    /\ builder = pred.at

\* C5: a predicate built from two or more predicates is true on p, in AND
\* mode, iff every accumulated predicate is true on p and, in OR mode, iff
\* some accumulated predicate is: for the predicates the builder holds when
\* the predicate is called, and for those held at Build time with the builder
\* as Build left it. While the builder holds exactly two predicates p1, p2
\* the built predicate agrees with And(p1, p2), respectively Or(p1, p2).
C5_ComposesAll ==
    (Built /\ Len(pred.at.predicates) >= 2) =>
        \A p \in Processes :
            /\ Res(p) = IF pred.at.combineOp = "AND"
                        THEN AllHold(builder.predicates, p)
                        ELSE SomeHolds(builder.predicates, p)
            /\ ResAtBuild(p) = IF pred.at.combineOp = "AND"
                               THEN AllHold(pred.at.predicates, p)
                               ELSE SomeHolds(pred.at.predicates, p)
            /\ Len(builder.predicates) = 2 =>
                Res(p) =
                    IF pred.at.combineOp = "AND"
                    THEN Call(And(builder.predicates[1], builder.predicates[2]), p).res
                    ELSE Call(Or(builder.predicates[1], builder.predicates[2]), p).res

\* built in OR mode from two predicates of which exactly one holds on some
\* process and none on another
C5_Witness ==
    /\ Built
    /\ Len(pred.at.predicates) = 2
    /\ pred.at.combineOp = "OR"
    /\ builder = pred.at
    /\ \E p \in Processes : Res(p) /\ ~AllHold(pred.at.predicates, p)
    /\ \E p \in Processes : ~Res(p)

\* C6: a predicate built from exactly one predicate gives that predicate's
\* result on every process, in AND mode and in OR mode.
C6_SingleIsItself ==
    (Built /\ Len(pred.at.predicates) = 1) =>
        \A p \in Processes : Res(p) = ApplyAtomic(pred.at.predicates[1], p)

C6_Witness ==
    /\ Built
    /\ Len(pred.at.predicates) = 1
    /\ pred.at.combineOp = "OR"
    /\ \E p \in Processes : Res(p)
    /\ \E p \in Processes : ~Res(p)

\* C7: the predicate Build returns is the composition, under the mode of the
\* last UseAND/UseOR call made before Build (AND if none), of all the
\* predicates accumulated, wherever in the chain that Use* call was made:
\* of those held at Build time with the builder as Build left it, and, called
\* later, of those the builder then holds when it was built from two or more.
C7_ModeAtBuild ==
    LET mode == IF pred.use.op = "OR" THEN "OR" ELSE "AND"
    IN Built =>
        /\ pred.at.combineOp = mode
        /\ \A p \in Processes :
            /\ ResAtBuild(p) = Composed(mode, pred.at.predicates, p)
            /\ Res(p) = IF Len(pred.at.predicates) >= 2
                        THEN Composed(mode, builder.predicates, p)
                        ELSE Composed(mode, pred.at.predicates, p)

\* UseOR was called between two With* calls, and the mode decides the result
C7_Witness ==
    /\ Built
    /\ pred.use = [op |-> "OR", n |-> 1]
    /\ Len(pred.at.predicates) = 2
    /\ \E p \in Processes : ResAtBuild(p) /\ ~AllHold(pred.at.predicates, p)

\* C8: a new builder holds zero predicates and mode AND; each With* call
\* appends exactly its one predicate at the end of the list (so the list is,
\* in call order and with duplicates, what the With* calls were to add),
\* leaves the mode alone (the mode is that of the last Use* call, AND if
\* none) and returns the builder.
C8_WithAppendsOne ==
    /\ builder.predicates = added
    /\ builder.combineOp = (IF lastUse.op = "OR" THEN "OR" ELSE "AND")
    /\ (added = <<>> /\ lastUse.op = "none") => builder = NewBuilderValue
    /\ added # <<>> => ret = "b"

\* the builder holds the same predicate twice, in OR mode
C8_Witness ==
    /\ Len(builder.predicates) = 3
    /\ builder.predicates[1] = builder.predicates[3]
    /\ builder.predicates[1] # builder.predicates[2]
    /\ builder.combineOp = "OR"
    /\ ret = "b"

\* C9: Build leaves the builder's predicate list and mode as they were, and
\* the predicate it returns composes everything accumulated so far, on a second
\* Build too.
C9_BuildKeepsBuilder ==
    [][Build =>
        /\ builder' = builder
        /\ \A p \in Processes :
            CallPredicate(pred'.f, p, builder').res
                = Composed(builder.combineOp, builder.predicates, p)]_vars

\* a second Build, after one more With* call than the first one saw
C9_Witness ==
    /\ Built
    /\ pred.again
    /\ Len(pred.at.predicates) = 3
    /\ builder = pred.at

----------------------------------------------------------------------------
(* Properties of the slice operations (specification SpecSlices) *)

\* the indices of s whose item satisfies f
Matching(s, f, Holds(_, _)) == {j \in DOMAIN s : Holds(f, s[j])}

\* the i-th smallest element of the set of indices J
Nth(J, i) == CHOOSE j \in J : Cardinality({k \in J : k < j}) = i - 1

\* res lists exactly the satisfying items of s, in the order of s
IsFilterOf(res, s, f, Holds(_, _)) ==
    LET J == Matching(s, f, Holds)
    IN /\ Len(res) = Cardinality(J)
       /\ \A i \in 1..Len(res) : res[i] = s[Nth(J, i)]

HoldsGeneric(f, item) == Call(f, item).res

\* C1: Filter(S, p), and ProcessManager.Find(p) over the manager's processes,
\* return exactly the items satisfying p, each as often as it occurs and in
\* the order of S.
C1_FilterExact ==
    /\ out.op = "Filter" => IsFilterOf(out.res, items, out.p, HoldsGeneric)
    /\ out.op = "ProcessManager.Find" =>
            IsFilterOf(out.res, CreateProcessManager.processes, out.p, ApplyAtomic)

\* a slice with a repeated satisfying item around a failing one
C1_Witness ==
    /\ out.op = "Filter"
    /\ Len(items) = 3
    /\ items[1] = items[3]
    /\ Len(out.res) = 2
    /\ out.res[1] = out.res[2]

----------------------------------------------------------------------------
(* Properties of the combinators (specification SpecCombinators) *)

Range(s) == {s[i] : i \in DOMAIN s}

\* C10: And(p, q)(x) equals p(x) && q(x), and q is not evaluated on x when
\* p(x) is false.
C10_AndShortCircuits ==
    out.op = "And" =>
        /\ out.r.res = (HoldsGeneric(out.p, x) /\ HoldsGeneric(out.q, x))
        /\ ~HoldsGeneric(out.p, x) =>
            /\ out.r.calls = Call(out.p, x).calls
            /\ Range(Call(out.q, x).calls) \cap Range(Call(out.p, x).calls) = {}
                    => Range(Call(out.q, x).calls) \cap Range(out.r.calls) = {}

\* p is false on x, q is true on x and shares no predicate with p
C10_Witness ==
    /\ out.op = "And"
    /\ ~HoldsGeneric(out.p, x)
    /\ HoldsGeneric(out.q, x)
    /\ Range(Call(out.q, x).calls) \cap Range(Call(out.p, x).calls) = {}
    /\ ~out.r.res


\* C11: Or(p, q)(x) equals p(x) || q(x), and q is not evaluated on x when
\* p(x) is true.
C11_OrShortCircuits ==
    out.op = "Or" =>
        /\ out.r.res = (HoldsGeneric(out.p, x) \/ HoldsGeneric(out.q, x))
        /\ HoldsGeneric(out.p, x) =>
            /\ out.r.calls = Call(out.p, x).calls
            /\ Range(Call(out.q, x).calls) \cap Range(Call(out.p, x).calls) = {}
                    => Range(Call(out.q, x).calls) \cap Range(out.r.calls) = {}

\* p is true on x, q is false on x and shares no predicate with p
C11_Witness ==
    /\ out.op = "Or"
    /\ HoldsGeneric(out.p, x)
    /\ ~HoldsGeneric(out.q, x)
    /\ Range(Call(out.q, x).calls) \cap Range(Call(out.p, x).calls) = {}
    /\ out.r.res

\* C12: Not(p)(x) equals !p(x).
C12_NotNegates ==
    out.op = "Not" =>
        out.r.res = IF out.p.fn \in IntFns THEN ~ApplyInt(out.p, x)
                    ELSE ~HoldsGeneric(out.p, x)

\* Not of an integer predicate that is false on x
C12_Witness ==
    /\ out.op = "Not"
    /\ out.p.fn \in IntFns
    /\ ~ApplyInt(out.p, x)
    /\ out.r.res


----------------------------------------------------------------------------
(* Properties of the specification variant (specification SpecSpecifications) *)

\* C13: s.Not().Not() is satisfied by exactly the processes s is satisfied
\* by, for s of every kind.
C13_DoubleNegation ==
    (out.op = "Spec.Not" /\ out.orig # NoSpec) =>
        \A p \in Processes :
            IsSatisfiedBy(spec, p).res = IsSatisfiedBy(out.orig, p).res

\* s is itself a negation, so s.Not() is the specification s negates
C13_Witness ==
    /\ out.op = "Spec.Not"
    /\ out.orig # NoSpec
    /\ out.orig.kind = "not"
    /\ out.orig.spec.kind = "and"
    /\ \E p \in Processes : IsSatisfiedBy(spec, p).res
    /\ \E p \in Processes : ~IsSatisfiedBy(spec, p).res

\* C14: a.And(b) is satisfied iff a and b are, a.Or(b) iff a or b is,
\* a.Not() iff a is not; the left operand is evaluated first and the right
\* one only when the left one does not decide.
C14_SpecificationAlgebra ==
    \A p \in Processes :
        LET r == IsSatisfiedBy(spec, p)
        IN /\ out.op = "Spec.And" =>
                LET a == IsSatisfiedBy(out.a, p)
                    b == IsSatisfiedBy(out.b, p)
                IN /\ r.res = (a.res /\ b.res)
                   /\ r.calls = IF a.res THEN a.calls \o b.calls ELSE a.calls
           /\ out.op = "Spec.Or" =>
                LET a == IsSatisfiedBy(out.a, p)
                    b == IsSatisfiedBy(out.b, p)
                IN /\ r.res = (a.res \/ b.res)
                   /\ r.calls = IF a.res THEN a.calls ELSE a.calls \o b.calls
           /\ out.op = "Spec.Not" => r.res = ~IsSatisfiedBy(out.a, p).res

\* a is an or-specification, b a negation, and b decides on some process
C14_Witness ==
    /\ out.op = "Spec.And"
    /\ out.a.kind = "or"
    /\ out.b.kind = "not"
    /\ \E p \in Processes :
        IsSatisfiedBy(out.a, p).res /\ ~IsSatisfiedBy(out.b, p).res
    /\ \E p \in Processes : ~IsSatisfiedBy(out.a, p).res


----------------------------------------------------------------------------
(* Properties of Count, Find, Any, All, None (specification SpecSlices) *)

\* the indices of s whose item fails f
Failing(s, f) == {j \in DOMAIN s : ~HoldsGeneric(f, s[j])}

\* the indices 1..k in order
UpTo(k) == [i \in 1..k |-> i]

\* C15: Count(S, p) equals len(Filter(S, p)) and is never negative.
C15_CountIsLenFilter ==
    out.op = "Count" =>
        /\ out.res = Len(Filter(items, out.p))
        /\ out.res = Cardinality(Matching(items, out.p, HoldsGeneric))
        /\ out.res >= 0

\* a slice where some items satisfy p and some do not
C15_Witness ==
    /\ out.op = "Count"
    /\ Len(items) = 3
    /\ out.res = 2
    /\ ~HoldsGeneric(out.p, items[2])

\* C16: Find(S, p) returns (x, true) with x the item at the smallest index
\* satisfying p when there is one, and (zero value, false) when no item of S
\* satisfies p, S empty included.
C16_FindFirst ==
    out.op = "Find" =>
        LET J == Matching(items, out.p, HoldsGeneric)
        IN IF J = {} THEN out.res = [item |-> Zero, found |-> FALSE]
           ELSE out.res = [item |-> items[Nth(J, 1)], found |-> TRUE]

\* two different satisfying items after a failing one
C16_Witness ==
    /\ out.op = "Find"
    /\ Len(items) = 3
    /\ Matching(items, out.p, HoldsGeneric) = {2, 3}
    /\ items[2] # items[3]
    /\ out.res = [item |-> items[2], found |-> TRUE]

\* C17: Any(S, p) is true iff some item of S satisfies p (false on the empty
\* slice), and no item after the first satisfying one is evaluated.
C17_AnyExists ==
    out.op = "Any" =>
        LET J == Matching(items, out.p, HoldsGeneric)
        IN /\ out.res.res = (J # {})
           /\ items = <<>> => ~out.res.res
           /\ out.res.evals = IF J = {} THEN UpTo(Len(items)) ELSE UpTo(Nth(J, 1))

\* the first satisfying item is followed by another item
C17_Witness ==
    /\ out.op = "Any"
    /\ Len(items) = 3
    /\ Matching(items, out.p, HoldsGeneric) = {2, 3}
    /\ out.res = [res |-> TRUE, evals |-> <<1, 2>>]

\* C18: All(S, p) is true iff every item of S satisfies p (true on the empty
\* slice), and no item after the first failing one is evaluated.
C18_AllForall ==
    out.op = "All" =>
        LET J == Failing(items, out.p)
        IN /\ out.res.res = (J = {})
           /\ items = <<>> => out.res.res
           /\ out.res.evals = IF J = {} THEN UpTo(Len(items)) ELSE UpTo(Nth(J, 1))

\* the first failing item is followed by another item
C18_Witness ==
    /\ out.op = "All"
    /\ Len(items) = 3
    /\ Failing(items, out.p) = {2}
    /\ out.res = [res |-> FALSE, evals |-> <<1, 2>>]

\* C19: None(S, p) equals !Any(S, p).
C19_NoneIsNotAny ==
    out.op = "None" =>
        /\ out.res = ~AnyOf(items, out.p).res
        /\ out.res = (Matching(items, out.p, HoldsGeneric) = {})

\* None is false on a slice with a satisfying item
C19_Witness ==
    /\ out.op = "None"
    /\ Len(items) = 2
    /\ Matching(items, out.p, HoldsGeneric) = {2}
    /\ ~out.res


----------------------------------------------------------------------------
(* Properties of the storage (specification SpecStorage) *)

\* C20: Filter, Any, All, None, Find and Count leave the caller's slice with
\* the length and the elements it had, and the slice Filter returns shares
\* no storage with it: writing to the result does not change the input.
C20_InputUntouched ==
    /\ input.len = Len(items)
    /\ Contents(heap, input) = items
    /\ heap[1] = [i \in 1..Len(heap[1]) |->
                    IF input.off < i /\ i <= input.off + input.len
                    THEN items[i - input.off] ELSE Zero]
    /\ (out.op = "Filter" /\ out.res # NilSlice) => out.res.arr # input.arr

\* Filter returned two items of a slice of three that has room after it,
\* and the caller wrote to the first and appended a third
C20_Witness ==
    /\ out.op = "Filter"
    /\ input.len = 3
    /\ input.cap > input.len
    /\ out.res.len = 3
    /\ Contents(heap, out.res)[1] = Written
    /\ Contents(heap, out.res)[3] = Written
    /\ Contents(heap, out.res)[2] = items[3]
    /\ items[3] # items[2]


----------------------------------------------------------------------------
(* Properties of the option pattern (specification SpecOption) *)

\* the option is one its option function rejects
Rejected(opt) ==
    \/ opt.fn = "WithHost" /\ opt.host = ""
    \/ opt.fn = "WithPort" /\ opt.port \notin 1..65535
    \/ opt.fn = "WithTimeout" /\ opt.timeout < 0
    \/ opt.fn = "WithMaxConnections" /\ opt.max < 1
    \/ opt.fn = "WithTLS" /\ (opt.certFile = "" \/ opt.keyFile = "")
    \/ opt.fn = "WithLogger" /\ opt.logger = "nil"
    \/ opt.fn = "WithReadTimeout" /\ opt.rtimeout < 0
    \/ opt.fn = "WithWriteTimeout" /\ opt.wtimeout < 0

\* the indices of the options of opts that are rejected
RejectedAt == {i \in 1..Len(opts) : Rejected(opts[i])}

\* the smallest element of a non-empty set of numbers
Min(S) == CHOOSE i \in S : \A j \in S : i <= j
Max(S) == CHOOSE i \in S : \A j \in S : j <= i

\* C21: a server NewServer returns with a nil error has a port in 1..65535,
\* at least one connection and, with TLS enabled, both files named; and
\* NewServer never returns a server together with an error.
C21_ReturnedServerValid ==
    srv.called =>
        /\ (srv.server # "nil" /\ srv.err = NoErr) =>
                /\ srv.obj.port \in 1..65535
                /\ srv.obj.maxConnections >= 1
                /\ srv.obj.enableTLS => (srv.obj.certFile # "" /\ srv.obj.keyFile # "")
        /\ ~(srv.server # "nil" /\ srv.err # NoErr)

\* a TLS server on another port, after three options
C21_Witness ==
    /\ srv.called
    /\ Len(opts) = 3
    /\ srv.server = "server"
    /\ srv.err = NoErr
    /\ srv.obj.enableTLS
    /\ srv.obj.port = 443
    /\ srv.obj.maxConnections = 500

\* C22: when an option returns an error, NewServer returns nil and an error
\* wrapping it, having called the options before it in argument order, no
\* option after it, and not validate.
C22_FailFast ==
    (srv.called /\ RejectedAt # {}) =>
        LET k == Min(RejectedAt)
            before == ApplyEach(SubSeq(opts, 1, k - 1), DefaultServer, 1).s
        IN /\ srv.server = "nil"
           /\ srv.err = Wrap("failed to apply option", ApplyOption(opts[k], before).err)
           /\ Len(srv.err) = 2
           /\ srv.applied = k
           /\ srv.obj = before
           /\ ~srv.validated

\* the second of three options fails and the third would have set the port
C22_Witness ==
    /\ srv.called
    /\ Len(opts) = 3
    /\ RejectedAt = {2}
    /\ opts[1].fn = "WithHost"
    /\ opts[3] = WithPort(443)
    /\ srv.obj.host = "api.example.com"
    /\ srv.obj.port = 8080
    /\ srv.applied = 2

\* the fields of Server an option writes
FieldsOf(opt) ==
    CASE opt.fn = "WithHost" -> {"host"}
      [] opt.fn = "WithPort" -> {"port"}
      [] opt.fn = "WithTimeout" -> {"timeout"}
      [] opt.fn = "WithMaxConnections" -> {"maxConnections"}
      [] opt.fn = "WithTLS" -> {"enableTLS", "certFile", "keyFile"}
      [] opt.fn = "WithLogger" -> {"logger"}
      [] opt.fn = "WithMiddleware" -> {"middleware"}
      [] opt.fn = "WithReadTimeout" -> {"readTimeout"}
      [] opt.fn = "WithWriteTimeout" -> {"writeTimeout"}
      [] opt.fn = "WithProduction" ->
            {"host", "maxConnections", "timeout", "readTimeout", "writeTimeout",
             "middleware"}
      [] opt.fn = "WithDevelopment" ->
            {"host", "port", "maxConnections", "timeout", "middleware"}

ServerFields ==
    {"host", "port", "timeout", "maxConnections", "enableTLS", "certFile",
     "keyFile", "logger", "middleware", "readTimeout", "writeTimeout"}

\* the field f of the server has its default
HasDefault(s, f) ==
    CASE f = "host" -> s.host = "localhost"
      [] f = "port" -> s.port = 8080
      [] f = "timeout" -> s.timeout = 30
      [] f = "maxConnections" -> s.maxConnections = 100
      [] f = "enableTLS" -> s.enableTLS = FALSE
      [] f = "certFile" -> s.certFile = ""
      [] f = "keyFile" -> s.keyFile = ""
      [] f = "logger" -> s.logger = "default"
      [] f = "middleware" -> s.middleware = <<>>
      [] f = "readTimeout" -> s.readTimeout = 15
      [] f = "writeTimeout" -> s.writeTimeout = 15

\* C23: NewServer() succeeds with host "localhost", port 8080, timeout 30s,
\* 100 connections, no TLS, no middleware and read/write timeouts of 15s;
\* with options, every field no option sets keeps its default.
C23_Defaults ==
    srv.called =>
        /\ opts = <<>> =>
                /\ srv.server = "server"
                /\ srv.err = NoErr
                /\ \A f \in ServerFields : HasDefault(srv.obj, f)
        /\ srv.server = "server" =>
                \A f \in ServerFields :
                    (\A i \in 1..Len(opts) : f \notin FieldsOf(opts[i]))
                        => HasDefault(srv.obj, f)

\* the port and the TLS fields are set, the others are the defaults
C23_Witness ==
    /\ srv.called
    /\ srv.server = "server"
    /\ opts = <<WithPort(443), WithTLS("cert.pem", "key.pem")>>
    /\ srv.obj.host = "localhost"
    /\ srv.obj.maxConnections = 100
    /\ srv.obj.port = 443

\* C24: NewServer(WithHost("localhost"), WithPort(0), WithTimeout(1s))
\* returns a server and no error.
C24_PortZeroAccepted ==
    (srv.called /\ opts = <<WithHost("localhost"), WithPort(0), WithTimeout(1)>>) =>
        /\ srv.server # "nil"
        /\ srv.err = NoErr


\* the options of os with each composite replaced by the options it applies
RECURSIVE Flatten(_)
Flatten(os) ==
    IF os = <<>> THEN <<>>
    ELSE (CASE Head(os).fn = "WithProduction" -> ProductionOpts
            [] Head(os).fn = "WithDevelopment" -> DevelopmentOpts
            [] OTHER -> <<Head(os)>>) \o Flatten(Tail(os))

\* the indices of flat whose option sets the scalar field f
SettersOf(flat, f) ==
    {i \in 1..Len(flat) :
        \/ f = "host" /\ flat[i].fn = "WithHost"
        \/ f = "port" /\ flat[i].fn = "WithPort"
        \/ f = "timeout" /\ flat[i].fn = "WithTimeout"
        \/ f = "maxConnections" /\ flat[i].fn = "WithMaxConnections"
        \/ f = "logger" /\ flat[i].fn = "WithLogger"
        \/ f = "readTimeout" /\ flat[i].fn = "WithReadTimeout"
        \/ f = "writeTimeout" /\ flat[i].fn = "WithWriteTimeout"}

\* the field f of s has the value the option o was made with
HasValueOf(s, f, o) ==
    CASE f = "host" -> s.host = o.host
      [] f = "port" -> s.port = o.port
      [] f = "timeout" -> s.timeout = o.timeout
      [] f = "maxConnections" -> s.maxConnections = o.max
      [] f = "logger" -> s.logger = o.logger
      [] f = "readTimeout" -> s.readTimeout = o.rtimeout
      [] f = "writeTimeout" -> s.writeTimeout = o.wtimeout

ScalarFields ==
    {"host", "port", "timeout", "maxConnections", "logger", "readTimeout",
     "writeTimeout"}

\* the arguments of the WithMiddleware options of flat, in order
RECURSIVE AllMiddleware(_)
AllMiddleware(flat) ==
    IF flat = <<>> THEN <<>>
    ELSE (IF Head(flat).fn = "WithMiddleware" THEN Head(flat).middleware ELSE <<>>)
            \o AllMiddleware(Tail(flat))

\* C30: when all options succeed, each scalar field has the value of the
\* last option setting it, the options applied by WithProduction and
\* WithDevelopment counted at the composite's place, and the middleware
\* list is the concatenation, in argument order, of the WithMiddleware
\* arguments; NewServer(WithProduction(), WithPort(443), WithTLS(c, k)) has
\* port 443 and host "0.0.0.0".
C30_ArgumentOrder ==
    (srv.called /\ RejectedAt = {}) =>
        LET flat == Flatten(opts)
        IN /\ srv.server = "server"
           /\ \A f \in ScalarFields :
                IF SettersOf(flat, f) = {} THEN HasDefault(srv.obj, f)
                ELSE HasValueOf(srv.obj, f, flat[Max(SettersOf(flat, f))])
           /\ srv.obj.middleware = AllMiddleware(flat)
           /\ opts = <<WithProduction, WithPort(443), WithTLS("cert.pem", "key.pem")>>
                => (srv.obj.port = 443 /\ srv.obj.host = "0.0.0.0")

\* a host set before the production preset, the port after it, and
\* middleware from both the caller and the preset
C30_Witness ==
    /\ srv.called
    /\ srv.server = "server"
    /\ opts = <<WithMiddleware(<<"cors", "auth">>), WithDevelopment, WithPort(443)>>
    /\ srv.obj.port = 443
    /\ srv.obj.host = "localhost"
    /\ srv.obj.middleware = <<"cors", "auth", "logging", "debug">>


----------------------------------------------------------------------------
(* Properties of the computer builder (specification SpecComputer) *)

\* the fields Build requires, as the claim lists them
ValidComputer(c) ==
    /\ c.CPU # ""
    /\ c.RAM \in 1..1024
    /\ c.Storage \in 1..100000
    /\ c.OS # ""

C29_BuiltStaysValid ==
    (built.called /\ built.held # 0) =>
        /\ ValidComputer(computers[built.held])
        /\ computers[built.held] = built.heldSnap


----------------------------------------------------------------------------
(* Properties of Must and MustV (specification SpecMust) *)

\* C26: Must(err) and MustV(v, err) panic iff err is non-nil, with err itself
\* as the panic value; with a nil err Must returns and MustV returns v.
C26_MustPanicsOnError ==
    mustCall.op \in {"Must", "MustV"} =>
        /\ mustCall.r.panicked <=> (mustCall.err # NoErr)
        /\ mustCall.r.panicked => mustCall.r.panic = mustCall.err
        /\ (mustCall.op = "MustV" /\ mustCall.err = NoErr) => mustCall.r.ret = mustCall.v

\* MustV panicking with a wrapped error of NewServer
C26_Witness ==
    /\ mustCall.op = "MustV"
    /\ mustCall.v # Zero
    /\ Len(mustCall.err) = 2
    /\ mustCall.r.panicked
    /\ mustCall.r.panic = mustCall.err

----------------------------------------------------------------------------
(* Properties of PointerOf (specification SpecPointer) *)

\* C27: PointerOf(v) returns a non-nil pointer p with *p == v, to a copy of
\* v: writing through p does not change the variable passed in, and two
\* calls return pointers to distinct storage.
C27_PointerToCopy ==
    /\ \A i \in 1..Len(ptrs) :
        /\ ptrs[i].p # 0
        /\ ptrs[i].deref = ptrs[i].v
        /\ ptrs[i].p # 1
    /\ cells[1] = x
    /\ \A i, j \in 1..Len(ptrs) : i # j => ptrs[i].p # ptrs[j].p

\* two pointers made from the variable, one of them written through
C27_Witness ==
    /\ Len(ptrs) = 2
    /\ ptrs[1].v = x
    /\ ptrs[2].v = x
    /\ cells[ptrs[1].p] # x
    /\ cells[ptrs[2].p] = x
    /\ cells[1] = x


----------------------------------------------------------------------------
(* Evaluation order of a built predicate (specification Spec) *)

\* the predicates of preds up to and including the first one that decides a
\* composition under mode op on p, all of them when none decides
UpToDeciding(op, preds, p) ==
    LET D == {i \in DOMAIN preds : ApplyAtomic(preds[i], p) = (op = "OR")}
    IN IF D = {} THEN preds ELSE SubSeq(preds, 1, Min(D))

\* C28: a predicate built from two or more predicates evaluates the
\* accumulated predicates in insertion order on each call and stops, in AND
\* mode, at the first that returns false and, in OR mode, at the first that
\* returns true: no predicate stored after the deciding one is evaluated.
\* It holds for the predicates the builder holds when the predicate is
\* called, and for those held at Build time with the builder as Build left
\* it.
C28_EvaluationOrder ==
    (Built /\ Len(pred.at.predicates) >= 2) =>
        \A p \in Processes :
            /\ CallPredicate(pred.f, p, builder).calls =
                    UpToDeciding(pred.at.combineOp, builder.predicates, p)
            /\ CallPredicate(pred.f, p, pred.at).calls =
                    UpToDeciding(pred.at.combineOp, pred.at.predicates, p)

\* built in AND mode from three predicates; on some process the second one
\* decides, on another the first, on another none
C28_Witness ==
    /\ Built
    /\ pred.at.combineOp = "AND"
    /\ builder = pred.at
    /\ Len(builder.predicates) = 3
    /\ \E p \in Processes : Len(CallPredicate(pred.f, p, builder).calls) = 2
    /\ \E p \in Processes : Len(CallPredicate(pred.f, p, builder).calls) = 1
    /\ \E p \in Processes : CallPredicate(pred.f, p, builder).res

====
